---- MODULE Spec2Model ----
(***************************************************************************)
(* Sampling-based MPC solvers of rllib (rllib/algorithms/control/mpc.py):  *)
(* MPCSolver and its subclasses CEMShooting, RandomShooting, MPPIShooting. *)
(*                                                                         *)
(* Tensors of reals are modelled exactly over the rationals: a scalar is a *)
(* pair <<n, d>> in lowest terms with d > 0, and <<0, 0>> is NaN.  A       *)
(* tensor is a nested sequence indexed from 1 (the source indexes from 0). *)
(***************************************************************************)
EXTENDS Integers, Sequences, FiniteSets, TLC

(* ------------------------------------------------------------------ *)
(* Bounds of the model.                                                *)
(* ------------------------------------------------------------------ *)

\* Calls (forward or reset) made on one solver instance in one behaviour.
MaxCalls == 2

\* Seeds of the pseudo-random generator a sampling step may draw.
NumSeeds == 2

(* ------------------------------------------------------------------ *)
(* Rational arithmetic.                                                *)
(* ------------------------------------------------------------------ *)

Abs(x) == IF x < 0 THEN -x ELSE x

Min(a, b) == IF a <= b THEN a ELSE b

Max(a, b) == IF a >= b THEN a ELSE b

RECURSIVE Gcd(_, _)
Gcd(a, b) == IF b = 0 THEN a ELSE Gcd(b, a % b)

NaN == <<0, 0>>

IsNaN(x) == x[2] = 0

\* The rational n/d in lowest terms; anything over 0 is NaN.
Rat(n, d) ==
    IF d = 0 THEN NaN
    ELSE LET g == Gcd(Abs(n), Abs(d))
             s == IF d < 0 THEN -1 ELSE 1
         IN  <<(s * n) \div g, (s * d) \div g>>

R(n) == <<n, 1>>

RAdd(x, y) == IF IsNaN(x) \/ IsNaN(y) THEN NaN
              ELSE Rat(x[1] * y[2] + y[1] * x[2], x[2] * y[2])

RSub(x, y) == IF IsNaN(x) \/ IsNaN(y) THEN NaN
              ELSE Rat(x[1] * y[2] - y[1] * x[2], x[2] * y[2])

RMul(x, y) == IF IsNaN(x) \/ IsNaN(y) THEN NaN
              ELSE Rat(x[1] * y[1], x[2] * y[2])

\* x / y; 0/0 and x/0 are NaN here (no infinities arise in the model).
RDiv(x, y) == IF IsNaN(x) \/ IsNaN(y) THEN NaN
              ELSE Rat(x[1] * y[2], x[2] * y[1])

\* x < y, false when either is NaN (IEEE comparison).
RLt(x, y) == ~IsNaN(x) /\ ~IsNaN(y) /\ x[1] * y[2] < y[1] * x[2]

\* Floor of a rational, as an integer (d > 0).
RFloor(x) == x[1] \div x[2]

RECURSIVE RPow(_, _)
RPow(x, k) == IF k = 0 THEN R(1) ELSE RMul(x, RPow(x, k - 1))

RECURSIVE RSum(_)
RSum(s) == IF s = <<>> THEN R(0) ELSE RAdd(s[1], RSum(Tail(s)))

(* ------------------------------------------------------------------ *)
(* Tensor helpers.                                                     *)
(* ------------------------------------------------------------------ *)

\* Python's None for an optional tensor: a mean always has >= 1 step.
None == <<>>

\* Python's None for an optional int argument.
NoneInt == -1

\* torch.zeros(h, a)
Zeros(h, a) == [t \in 1..h |-> [c \in 1..a |-> R(0)]]

\* (s ** 2) * torch.eye(a).repeat(h, 1, 1)
ScaledEye(s, h, a) ==
    [t \in 1..h |-> [r \in 1..a |-> [c \in 1..a |->
        IF r = c THEN RMul(s, s) ELSE R(0)]]]

(* ------------------------------------------------------------------ *)
(* Construction.                                                       *)
(* ------------------------------------------------------------------ *)

\* num_samples defaults to 10 * horizon (MPCSolver.__init__).
SamplesPerStep == 10

\* num_elites defaults to max(1, num_samples // 10) (CEMShooting.__init__).
EliteDivisor == 10

\* num_iter defaults to 5 in CEMShooting.__init__.
CEMDefaultIter == 5

\* Python truthiness of an optional int: None and 0 are falsy.
Falsy(n) == n = NoneInt \/ n = 0

\* A call that returned v, and a call that raised the exception e.
Ok(v) == [err |-> "", val |-> v]

Raise(e) == [err |-> e, val |-> None]

\* The kappa schedule of an MPPI solver: a ParameterDecay object.  step
\* counts the update() calls it received; a constant schedule's value does
\* not depend on it.
Schedule(start, decaying) == [start |-> start, decaying |-> decaying, step |-> 0]

KappaUpdate(k) == [k EXCEPT !.step = @ + 1]

KappaValue(k) == IF k.decaying THEN RDiv(k.start, R(k.step + 1)) ELSE k.start

\* MPCSolver.__init__: the fields every solver has.  num_elites, kappa and
\* filter_coefficients are set by the subclasses.
MPCSolverInit(a) ==
    [kind |-> a.kind,
     dim_action |-> a.dim_action,
     horizon |-> a.horizon,
     gamma |-> a.gamma,
     num_iter |-> a.num_iter,
     num_samples |-> IF Falsy(a.num_samples) THEN SamplesPerStep * a.horizon
                     ELSE a.num_samples,
     reward_model |-> a.reward_model,
     termination |-> a.termination,
     terminal_reward |-> a.terminal_reward,
     warm_start |-> a.warm_start,
     default_action |-> a.default_action,
     mean |-> None,
     scale |-> a.scale,
     covariance |-> ScaledEye(a.scale, a.horizon, a.dim_action),
     num_elites |-> NoneInt,
     kappa |-> Schedule(R(1), FALSE),
     filter_coefficients |-> <<R(1)>>]

\* CEMShooting.__init__: the default of num_elites is computed from the
\* num_samples ARGUMENT, which is None when the caller left it out.
CEMShootingInit(a) ==
    LET base == MPCSolverInit(a)
    IN  IF Falsy(a.num_elites)
        THEN IF a.num_samples = NoneInt
             THEN Raise("TypeError")
             ELSE Ok([base EXCEPT
                      !.num_elites = Max(1, a.num_samples \div EliteDivisor)])
        ELSE Ok([base EXCEPT !.num_elites = a.num_elites])

\* As RandomShootingInit, leaving num_iter to CEMShooting's default.
RandomShootingInitDefaultIter(a) == CEMShootingInit(a)

\* RandomShooting.__init__: CEMShooting.__init__ with num_iter = 1.
RandomShootingInit(a) == CEMShootingInit([a EXCEPT !.num_iter = 1])

\* MPPIShooting.__init__: wraps a scalar kappa in a Constant schedule and
\* normalizes the filter coefficients to sum to 1.
MPPIShootingInit(a) ==
    LET base == MPCSolverInit(a)
        total == RSum(a.filter_coefficients)
    IN  Ok([base EXCEPT
            !.kappa = a.kappa,
            !.filter_coefficients =
                [k \in 1..Len(a.filter_coefficients) |->
                    RDiv(a.filter_coefficients[k], total)]])

\* The constructor the external glue dispatches to.
NewSolver(a) ==
    CASE a.kind = "cem" -> CEMShootingInit(a)
      [] a.kind = "random" -> RandomShootingInit(a)
      [] a.kind = "mppi" -> MPPIShootingInit(a)

(* ------------------------------------------------------------------ *)
(* MPCSolver.initialize_actions and MPCSolver.reset.                   *)
(* ------------------------------------------------------------------ *)

\* torch.mean(x, dim=-2, keepdim=True) of a steps x comps tensor whose
\* rows have `comps` components: one row; the mean of no rows is NaN.
MeanOverSteps(x, comps) ==
    <<[c \in 1..comps |->
        RDiv(RSum([t \in 1..Len(x) |-> x[t][c]]), R(Len(x)))]>>

\* As WarmStarts, without the warm_start flag.
WarmStartsIgnoringFlag(s) == s.mean # None

\* The test of line 112: warm-start from the persisted mean.
WarmStarts(s) == s.warm_start /\ s.mean # None

\* As NextMean, dropping the last step instead of the first.
NextMeanDropLast(mean) == SubSeq(mean, 1, Len(mean) - 1)

\* self.mean[..., 1:, :]
NextMean(mean) == SubSeq(mean, 2, Len(mean))

\* As FinalAction, with 'mean' averaging the whole previous mean.
FinalActionMeanOfAll(s) ==
    LET comps == Len(s.mean[1])
    IN  CASE s.default_action = "zero" -> <<[c \in 1..comps |-> R(0)]>>
          [] s.default_action = "constant" -> <<s.mean[Len(s.mean)]>>
          [] s.default_action = "mean" -> MeanOverSteps(s.mean, comps)
          [] OTHER -> None

\* As FinalAction, with an unknown default_action falling back to zero.
FinalActionFallback(s) ==
    LET comps == Len(s.mean[1])
    IN  CASE s.default_action = "constant" -> <<s.mean[Len(s.mean)]>>
          [] s.default_action = "mean" ->
                 MeanOverSteps(SubSeq(s.mean, 2, Len(s.mean)), comps)
          [] OTHER -> <<[c \in 1..comps |-> R(0)]>>

\* The step appended on a warm start (lines 114-121); None stands for the
\* NotImplementedError of an unknown default_action.
FinalAction(s) ==
    LET comps == Len(s.mean[1])
    IN  CASE s.default_action = "zero" -> <<[c \in 1..comps |-> R(0)]>>
          [] s.default_action = "constant" -> <<s.mean[Len(s.mean)]>>
          [] s.default_action = "mean" ->
                 MeanOverSteps(NextMean(s.mean), comps)
          [] OTHER -> None

\* As InitialCovariance, keeping the refit covariance on a warm start.
InitialCovarianceColdOnly(s) ==
    IF s.warm_start /\ s.mean # None THEN s.covariance
    ELSE ScaledEye(s.scale, s.horizon, s.dim_action)

\* The covariance initialize_actions assigns (lines 125-126).
InitialCovariance(s) == ScaledEye(s.scale, s.horizon, s.dim_action)

\* initialize_actions(batch_shape) for a single (unbatched) state, where
\* batch_shape = () and the two broadcasts of lines 128-131 change nothing.
\* Returns the solver after the call, or the exception raised before any
\* assignment.
InitializeActions(s) ==
    IF WarmStarts(s)
    THEN IF FinalAction(s) = None
         THEN Raise("NotImplementedError")
         ELSE Ok([s EXCEPT !.mean = NextMean(s.mean) \o FinalAction(s),
                           !.covariance = InitialCovariance(s)])
    ELSE Ok([s EXCEPT !.mean = Zeros(s.horizon, s.dim_action),
                      !.covariance = InitialCovariance(s)])

\* As ResetSolver, keeping the persisted mean when no warm_action is given.
ResetSolverIfGiven(s, warm_action) ==
    IF warm_action = None THEN s ELSE [s EXCEPT !.mean = warm_action]

\* reset(warm_action)
ResetSolver(s, warm_action) == [s EXCEPT !.mean = warm_action]

(* ------------------------------------------------------------------ *)
(* Sampling.                                                           *)
(* ------------------------------------------------------------------ *)

\* Largest magnitude of one noise draw.
NoiseMax == 2

\* The draw of a multivariate normal has full support whatever its
\* covariance; the model's generator gives candidate j, step t, component c
\* an integer in -NoiseMax..NoiseMax determined by the seed.
Noise(seed, j, t, c) ==
    (((seed + 2) * (3 * j + t) + (seed + 1) * c * (j + t) + j * j)
        % (2 * NoiseMax + 1)) - NoiseMax

\* CEMShooting.get_candidate_action_sequence:
\* MultivariateNormal(mean, covariance).sample((num_samples,)).transpose(0, -2),
\* a tensor horizon x num_samples x comps.  When the mean has fewer
\* components than the covariance (see CEMUpdate), `broadcast` says whether
\* this build of torch broadcasts the mean (torch.broadcast_tensors in
\* MultivariateNormal.__init__) or raises on the shape mismatch.
CEMCandidates(s, seed, broadcast) ==
    LET mc == Len(s.mean[1])
        cc == Len(s.covariance[1])
    IN  IF mc # cc /\ ~broadcast
        THEN Raise("RuntimeError")
        ELSE Ok([t \in 1..Len(s.mean) |-> [j \in 1..s.num_samples |->
                  [c \in 1..cc |->
                     RAdd(s.mean[t][IF mc = cc THEN c ELSE 1],
                          R(Noise(seed, j, t, c)))]]])

\* The in-place filter loop of MPPIShooting.get_candidate_action_sequence
\* for one candidate: step i is overwritten by the combination of the
\* window ending at i, whose earlier steps were overwritten before it.
RECURSIVE FilterFrom(_, _, _)
FilterFrom(noise, fc, i) ==
    IF i > Len(noise) THEN noise
    ELSE LET lag == Len(fc)
             m == Min(i, lag)
             first == Max(1, i - lag + 1)
             wsum == RSum(SubSeq(fc, 1, m))
             aux == [c \in 1..Len(noise[i]) |->
                       RSum([p \in 1..m |->
                               RMul(fc[m - p + 1], noise[first + p - 1][c])])]
             row == [c \in 1..Len(noise[i]) |-> RDiv(aux[c], wsum)]
         IN  FilterFrom([noise EXCEPT ![i] = row], fc, i + 1)

\* MPPIShooting.get_candidate_action_sequence: mean + filtered noise,
\* horizon x num_samples x comps.
MPPICandidates(s, seed) ==
    LET comps == Len(s.covariance[1])
        raw(j) == [t \in 1..Len(s.mean) |-> [c \in 1..comps |->
                      R(Noise(seed, j, t, c))]]
        filtered == [j \in 1..s.num_samples |->
                        FilterFrom(raw(j), s.filter_coefficients, 1)]
    IN  Ok([t \in 1..Len(s.mean) |-> [j \in 1..s.num_samples |->
              [c \in 1..comps |-> RAdd(s.mean[t][c], filtered[j][t][c])]]])

GetCandidateActionSequence(s, seed, broadcast) ==
    IF s.kind = "mppi" THEN MPPICandidates(s, seed)
    ELSE CEMCandidates(s, seed, broadcast)

(* ------------------------------------------------------------------ *)
(* Rollout evaluation.                                                 *)
(* ------------------------------------------------------------------ *)

RAbs(x) == IF IsNaN(x) THEN NaN ELSE Rat(Abs(x[1]), x[2])

\* The dynamics collaborator: scalar linear dynamics x' = x + sum(a).
Dynamics(x, a) == RAdd(x, RSum(a))

\* The reward collaborators: "neg_square" is -(x')^2; "sparse" is 0 within
\* distance 1 of the origin and -1 elsewhere.  Non-finite values propagate.
Reward(model, x, a, nx) ==
    IF IsNaN(nx) THEN NaN
    ELSE IF model = "neg_square" THEN RSub(R(0), RMul(nx, nx))
    ELSE IF RLt(RAbs(nx), R(1)) THEN R(0) ELSE R(-1)

\* The termination collaborator: "none" (no predicate) or "far", true
\* when the next state is at distance >= 2 of the origin.
Termination(pred, x, a, nx) == pred = "far" /\ ~RLt(RAbs(nx), R(2))

\* The terminal reward collaborator: "neg_abs" is -|x|.
TerminalReward(fn, x) == RSub(R(0), RAbs(x))

\* As RolloutActions, without masking the rewards after termination.
RECURSIVE RolloutActionsUnmasked(_, _, _, _)
RolloutActionsUnmasked(s, x, acts, done) ==
    IF acts = <<>> THEN <<>>
    ELSE LET a == Head(acts)
             nx == Dynamics(x, a)
             nd == done \/ Termination(s.termination, x, a, nx)
         IN  <<[reward |-> Reward(s.reward_model, x, a, nx),
                next_state |-> nx, done |-> nd]>>
                 \o RolloutActionsUnmasked(s, nx, Tail(acts), nd)

\* rollout_actions for one candidate: the transitions from state x along
\* the actions acts; a reward after termination is masked to 0.
RECURSIVE RolloutActions(_, _, _, _)
RolloutActions(s, x, acts, done) ==
    IF acts = <<>> THEN <<>>
    ELSE LET a == Head(acts)
             nx == Dynamics(x, a)
             r == IF done THEN R(0) ELSE Reward(s.reward_model, x, a, nx)
             nd == done \/ Termination(s.termination, x, a, nx)
         IN  <<[reward |-> r, next_state |-> nx, done |-> nd]>>
                 \o RolloutActions(s, nx, Tail(acts), nd)

\* discount_sum(rewards, gamma): sum over t of gamma^t * rewards[t].
DiscountSum(rewards, gamma) ==
    RSum([t \in 1..Len(rewards) |-> RMul(RPow(gamma, t - 1), rewards[t])])

\* As EvaluateActionSequence, discounting the terminal reward like the
\* reward of the last step.
EvaluateActionSequenceLastStepDiscount(s, action_sequence, state) ==
    [j \in 1..Len(action_sequence[1]) |->
        LET acts == [t \in 1..Len(action_sequence) |-> action_sequence[t][j]]
            trajectory == RolloutActions(s, state, acts, FALSE)
            returns == DiscountSum(
                [t \in 1..Len(trajectory) |-> trajectory[t].reward], s.gamma)
        IN  IF s.terminal_reward # "none"
            THEN RAdd(returns,
                      RMul(RPow(s.gamma, s.horizon - 1),
                           TerminalReward(s.terminal_reward,
                               trajectory[Len(trajectory)].next_state)))
            ELSE returns]

\* MPCSolver.evaluate_action_sequence: one return per candidate.
EvaluateActionSequence(s, action_sequence, state) ==
    [j \in 1..Len(action_sequence[1]) |->
        LET acts == [t \in 1..Len(action_sequence) |-> action_sequence[t][j]]
            trajectory == RolloutActions(s, state, acts, FALSE)
            returns == DiscountSum(
                [t \in 1..Len(trajectory) |-> trajectory[t].reward], s.gamma)
        IN  IF s.terminal_reward # "none"
            THEN RAdd(returns,
                      RMul(RPow(s.gamma, s.horizon),
                           TerminalReward(s.terminal_reward,
                               trajectory[Len(trajectory)].next_state)))
            ELSE returns]

(* ------------------------------------------------------------------ *)
(* Selection.                                                          *)
(* ------------------------------------------------------------------ *)

\* The order torch.topk(largest=True) ranks by: NaN above every number.
TopGt(x, y) == IF IsNaN(y) THEN FALSE ELSE IsNaN(x) \/ RLt(y, x)

RECURSIVE KSubsets(_, _)
KSubsets(S, k) ==
    IF k = 0 THEN {{}}
    ELSE IF Cardinality(S) < k THEN {}
    ELSE LET x == CHOOSE y \in S : TRUE
         IN  KSubsets(S \ {x}, k) \cup
             {T \cup {x} : T \in KSubsets(S \ {x}, k - 1)}

\* The elements of the index set S in descending order of returns, equal
\* returns by ascending index.
RECURSIVE Ranked(_, _)
Ranked(returns, S) ==
    IF S = {} THEN <<>>
    ELSE LET best == CHOOSE i \in S : \A j \in S \ {i} :
                        TopGt(returns[i], returns[j])
                        \/ (~TopGt(returns[j], returns[i]) /\ i < j)
         IN  <<best>> \o Ranked(returns, S \ {best})

\* As TopK, taking the k smallest returns.
TopKSmallest(returns, k) ==
    LET all == 1..Len(returns)
        below(i) == {j \in all : TopGt(returns[i], returns[j])}
        low == {i \in all : Cardinality(below(i)) < k}
    IN  IF k > Len(returns) THEN {}
        ELSE {Ranked(returns, T) : T \in KSubsets(low, k)}

\* The index vectors torch.topk(returns, k, largest=True)[1] may return:
\* the k largest returns; which of several equal returns at the cut is
\* taken is left to the implementation.  Empty when k > len(returns),
\* where topk raises.
TopK(returns, k) ==
    LET all == 1..Len(returns)
        above(i) == {j \in all : TopGt(returns[j], returns[i])}
        sure == {i \in all : Cardinality(above(i)) + Cardinality(
                    {j \in all : ~TopGt(returns[j], returns[i])
                                 /\ ~TopGt(returns[i], returns[j])}) <= k}
        cut == {i \in all \ sure : Cardinality(above(i)) < k}
    IN  IF k > Len(returns) THEN {}
        ELSE {Ranked(returns, sure \cup T) :
                 T \in KSubsets(cut, k - Cardinality(sure))}

\* CEMShooting.get_best_action after topk chose idx: the index tensor is
\* repeated dim_action times along dimension 1 (the elite dimension) and
\* keeps one entry along the component dimension, so gather returns a
\* horizon x (num_elites * dim_action) x 1 tensor holding component 0 of
\* each elite dim_action times.
CEMBestAction(s, action_sequence, idx) ==
    [t \in 1..s.horizon |-> [q \in 1..(Len(idx) * s.dim_action) |->
        [c \in 1..1 |->
            action_sequence[t][idx[((q - 1) \div s.dim_action) + 1]][c]]]]

\* The tensors are float32 (torch's default dtype), whose smallest positive
\* value is 2^-149: a power of two below 2^-150 rounds to zero.
ExpUnderflow == 150

\* torch.exp on an argument <= 0, with kappa measured in units of ln 2:
\* 2^x at the integers and linear between two of them, and zero where the
\* float32 result underflows.  The solvers explored keep kappa * return
\* either within a few units of the largest one or past the underflow.
RECURSIVE Pow2(_)
Pow2(n) == IF n = 0 THEN 1 ELSE 2 * Pow2(n - 1)

Exp(x) ==
    IF IsNaN(x) THEN NaN
    ELSE IF RLt(x, R(-ExpUnderflow)) THEN R(0)
    ELSE LET fl == RFloor(x)
             frac == RSub(x, R(fl))
         IN  RMul(Rat(1, Pow2(-fl)), RAdd(R(1), frac))

\* torch.max of a vector: NaN if any entry is NaN.
RECURSIVE RMax(_)
RMax(v) ==
    IF Len(v) = 1 THEN v[1]
    ELSE LET m == RMax(Tail(v))
         IN  IF IsNaN(v[1]) \/ IsNaN(m) THEN NaN
             ELSE IF RLt(m, v[1]) THEN v[1] ELSE m

\* As MPPIWeights, without subtracting the largest scaled return.
MPPIWeightsUnshifted(s, returns) ==
    [j \in 1..Len(returns) |-> Exp(RMul(KappaValue(s.kappa), returns[j]))]

\* As MPPIWeights, normalized to sum to 1.
MPPIWeightsNormalized(s, returns) ==
    LET scaled == [j \in 1..Len(returns) |->
                      RMul(KappaValue(s.kappa), returns[j])]
        top == RMax(scaled)
        raw == [j \in 1..Len(returns) |-> Exp(RSub(scaled[j], top))]
    IN  [j \in 1..Len(returns) |-> RDiv(raw[j], RSum(raw))]

\* The weights of MPPIShooting.get_best_action.
MPPIWeights(s, returns) ==
    LET scaled == [j \in 1..Len(returns) |->
                      RMul(KappaValue(s.kappa), returns[j])]
        top == RMax(scaled)
    IN  [j \in 1..Len(returns) |-> Exp(RSub(scaled[j], top))]

\* As MPPIBestAction, taking the first candidate of largest weight alone.
MPPIBestActionArgmax(s, action_sequence, returns) ==
    LET weights == MPPIWeights(s, returns)
        best == CHOOSE j \in 1..Len(weights) :
                   /\ \A k \in 1..Len(weights) : ~RLt(weights[j], weights[k])
                   /\ \A k \in 1..(j - 1) : RLt(weights[k], weights[j])
    IN  [t \in 1..Len(action_sequence) |-> action_sequence[t][best]]

\* MPPIShooting.get_best_action: the weighted average, horizon x comps.
MPPIBestAction(s, action_sequence, returns) ==
    LET weights == MPPIWeights(s, returns)
        total == RSum(weights)
    IN  [t \in 1..Len(action_sequence) |->
           [c \in 1..Len(action_sequence[t][1]) |->
              RDiv(RSum([j \in 1..Len(weights) |->
                           RMul(weights[j], action_sequence[t][j][c])]),
                   total)]]

(* ------------------------------------------------------------------ *)
(* Refit.                                                              *)
(* ------------------------------------------------------------------ *)

\* sample_mean_and_cov of a steps x samples x comps elite tensor: per step
\* the sample mean and the sample covariance of the elites.
SampleMean(elite) ==
    [t \in 1..Len(elite) |-> [c \in 1..Len(elite[t][1]) |->
        RDiv(RSum([q \in 1..Len(elite[t]) |-> elite[t][q][c]]),
             R(Len(elite[t])))]]

SampleCov(elite) ==
    LET mean == SampleMean(elite)
    IN  [t \in 1..Len(elite) |-> [r \in 1..Len(elite[t][1]) |->
           [c \in 1..Len(elite[t][1]) |->
              RDiv(RSum([q \in 1..Len(elite[t]) |->
                           RMul(RSub(elite[t][q][r], mean[t][r]),
                                RSub(elite[t][q][c], mean[t][c]))]),
                   R(Len(elite[t])))]]]

\* CEMShooting.update_sequence_generation
CEMUpdate(s, elite_actions) ==
    [s EXCEPT !.mean = SampleMean(elite_actions),
              !.covariance = SampleCov(elite_actions)]

\* As MPPIUpdate, shrinking the covariance to zero around the new mean.
MPPIUpdateCollapsingCovariance(s, elite_actions) ==
    [s EXCEPT !.mean = elite_actions,
              !.kappa = KappaUpdate(s.kappa),
              !.covariance = [t \in 1..Len(s.covariance) |->
                  [r \in 1..Len(s.covariance[t]) |->
                      [c \in 1..Len(s.covariance[t][r]) |-> R(0)]]]]

\* As MPPIUpdate, without the call of kappa.update().
MPPIUpdateMeanOnly(s, elite_actions) == [s EXCEPT !.mean = elite_actions]

\* MPPIShooting.update_sequence_generation
MPPIUpdate(s, elite_actions) ==
    [s EXCEPT !.mean = elite_actions, !.kappa = KappaUpdate(s.kappa)]

UpdateSequenceGeneration(s, elite_actions) ==
    IF s.kind = "mppi" THEN MPPIUpdate(s, elite_actions)
    ELSE CEMUpdate(s, elite_actions)

(* ------------------------------------------------------------------ *)
(* Constructor arguments the model explores.                           *)
(* ------------------------------------------------------------------ *)

Kinds == {"cem", "random", "mppi"}

\* "last" stands for any default_action other than the three known ones.
DefaultActions == {"zero", "constant", "mean", "last"}

\* The seeds a sampling step may draw.
Seeds == 0..(NumSeeds - 1)

\* The initial states forward is called with.
States == {R(1)}

\* Constructor arguments; the collaborators and the MPPI options depend on
\* the kind only.  RandomShooting takes no num_iter: the field holds the
\* default CEMShooting.__init__ would use.
Config(kind, h, a, iter, ns, ne, warm, da) ==
    [kind |-> kind, horizon |-> h, dim_action |-> a,
     gamma |-> R(1), scale |-> Rat(1, 2),
     num_iter |-> IF kind = "random" THEN CEMDefaultIter ELSE iter,
     num_samples |-> ns,
     num_elites |-> IF kind = "mppi" THEN NoneInt ELSE ne,
     reward_model |-> IF kind = "mppi" THEN "sparse" ELSE "neg_square",
     termination |-> "none", terminal_reward |-> "none",
     warm_start |-> warm, default_action |-> da,
     kappa |-> Schedule(R(1), FALSE),
     filter_coefficients |-> IF h >= 2 THEN <<R(1), R(1)>> ELSE <<R(1)>>]

\* Shapes and iteration counts, for every kind, cold and warm.
ShapeArgs ==
    {Config(k, 2, a, it, 3, 1, w, "zero") :
        k \in Kinds, a \in {1, 2}, it \in {0, 1, 2}, w \in BOOLEAN}

\* Warm starts under every default_action, for every horizon.
WarmArgs ==
    {Config(k, h, 1, it, 2, 1, TRUE, da) :
        k \in {"cem", "mppi"}, h \in {1, 2, 3}, it \in {0, 1},
        da \in DefaultActions}

\* num_samples and num_elites given, left out, or out of range.
EliteArgs ==
    {Config(k, h, 1, 1, ns, ne, FALSE, da) :
        k \in {"cem", "random"}, h \in {1, 2}, ns \in {NoneInt, 0, 2, 3},
        ne \in {NoneInt, 0, 1, 2, 4}, da \in {"zero", "last"}}

Args == ShapeArgs \cup WarmArgs \cup EliteArgs

\* The tensors reset is called with: None, or horizon x dim_action with
\* entry t + 1 + c at step t, component c (zero-based).
WarmAction(h, a) == [t \in 1..h |-> [c \in 1..a |-> R(t + c - 1)]]

(* ------------------------------------------------------------------ *)
(* The solver as a state machine.                                      *)
(* ------------------------------------------------------------------ *)

VARIABLES
    args,    \* the arguments the constructor (or rollout_agent) is called with
    self,    \* the solver object's fields (None before construction)
    frame,   \* forward's (or rollout_agent's) position and locals
    out,     \* how the last forward call ended: its return value or error;
             \* for rollout_agent, the calls it made so far
    calls,   \* forward and reset calls begun so far
    stats,   \* forward calls completed and raised, and refits, so far
    twin,    \* a second solver given the same calls and draws, or None
    op,      \* the last call made on the solver, with its argument
    peer     \* a second caller of forward on the same solver, or None

vars == <<args, self, frame, out, calls, stats, twin, op, peer>>

NoFrame(pc) ==
    [pc |-> pc, i |-> 0, state |-> R(0), action_sequence |-> None,
     returns |-> None, elite_actions |-> None]

NoOut == [result |-> None, error |-> ""]

\* A call made on the solver: "init", "forward" or "reset".
Op(name, arg) == [name |-> name, arg |-> arg]

\* One solver with its caller: p = [self, frame, out].
Proc(s, f, o) == [self |-> s, frame |-> f, out |-> o]

\* As Raised, handing the caller the mean reached so far.
RaisedWithMean(p, e) ==
    Proc(p.self, NoFrame("idle"), [result |-> p.self.mean, error |-> e])

\* An exception leaves forward: the object stays as it is.
Raised(p, e) ==
    Proc(p.self, NoFrame("idle"), [result |-> None, error |-> e])

\* The constructor call.
DoConstruct(a) ==
    LET r == NewSolver(a)
    IN  IF r.err # ""
        THEN Proc(None, NoFrame("failed"), [result |-> None, error |-> r.err])
        ELSE Proc(r.val, NoFrame("idle"), NoOut)

\* As DoCall, initializing the distribution in the first call only.
DoCallInitializeOnce(p, state) ==
    IF p.self.mean = None
    THEN LET r == InitializeActions(p.self)
         IN  Proc(r.val, [NoFrame("iter") EXCEPT !.state = state], p.out)
    ELSE Proc(p.self, [NoFrame("iter") EXCEPT !.state = state], p.out)

\* As DoCall, dropping the persisted mean when initialize_actions raises.
DoCallForgettingOnError(p, state) ==
    LET r == InitializeActions(p.self)
    IN  IF r.err # "" THEN Raised([p EXCEPT !.self.mean = None], r.err)
        ELSE Proc(r.val, [NoFrame("iter") EXCEPT !.state = state], p.out)

\* MPCSolver.forward, up to the loop: initialize_actions.
DoCall(p, state) ==
    LET r == InitializeActions(p.self)
    IN  IF r.err # "" THEN Raised(p, r.err)
        ELSE Proc(r.val, [NoFrame("iter") EXCEPT !.state = state], p.out)

\* One loop iteration of forward, line by line.
DoSample(p, seed, broadcast) ==
    LET r == GetCandidateActionSequence(p.self, seed, broadcast)
    IN  IF r.err # "" THEN Raised(p, r.err)
        ELSE Proc(p.self,
                  [p.frame EXCEPT !.pc = "evaluate", !.action_sequence = r.val],
                  p.out)

\* As DoEvaluate, also keeping the first candidate as the mean.
DoEvaluateStoringCandidate(p) ==
    Proc([p.self EXCEPT !.mean =
              [t \in 1..Len(p.frame.action_sequence) |->
                  p.frame.action_sequence[t][1]]],
         [p.frame EXCEPT !.pc = "select",
             !.returns = EvaluateActionSequence(
                             p.self, p.frame.action_sequence, p.frame.state)],
         p.out)

\* forward, line 140: returns = self.evaluate_action_sequence(...).
DoEvaluate(p) ==
    Proc(p.self,
         [p.frame EXCEPT !.pc = "select",
             !.returns = EvaluateActionSequence(
                             p.self, p.frame.action_sequence, p.frame.state)],
         p.out)

\* What topk may return for the solver's current returns: <<>> stands for
\* the RuntimeError of a k larger than the number of candidates.
TopKChoices(p) ==
    IF p.self.kind = "mppi" THEN {<<>>}
    ELSE LET c == TopK(p.frame.returns, p.self.num_elites)
         IN  IF c = {} THEN {<<>>} ELSE c

\* get_best_action; idx is what topk returned (unused by MPPI).
DoSelect(p, idx) ==
    IF p.self.kind = "mppi"
    THEN Proc(p.self,
              [p.frame EXCEPT !.pc = "refit",
                  !.elite_actions = MPPIBestAction(
                      p.self, p.frame.action_sequence, p.frame.returns)],
              p.out)
    ELSE IF idx = <<>> THEN Raised(p, "RuntimeError")
    ELSE Proc(p.self,
              [p.frame EXCEPT !.pc = "refit",
                  !.elite_actions = CEMBestAction(
                      p.self, p.frame.action_sequence, idx)],
              p.out)

\* As DoUpdate, going to the next round without refitting.
DoUpdateKeepingDistribution(p) ==
    Proc(p.self,
         [NoFrame("iter") EXCEPT !.state = p.frame.state,
                                 !.i = p.frame.i + 1],
         p.out)

DoUpdate(p) ==
    Proc(UpdateSequenceGeneration(p.self, p.frame.elite_actions),
         [NoFrame("iter") EXCEPT !.state = p.frame.state,
                                 !.i = p.frame.i + 1],
         p.out)

\* return self.mean
DoReturn(p) ==
    Proc(p.self, NoFrame("idle"), [result |-> p.self.mean, error |-> ""])

DoReset(p, warm_action) ==
    Proc(ResetSolver(p.self, warm_action), p.frame, p.out)

Cur == Proc(self, frame, out)

Becomes(p) == self' = p.self /\ frame' = p.frame /\ out' = p.out

\* The twin, when there is one and it stands where the solver stands,
\* takes the step q of its own.
TwinBecomes(q) ==
    twin' = IF twin # None /\ twin[1].frame.pc = frame.pc THEN <<q>> ELSE twin

Twin == twin[1]

Init ==
    /\ args \in Args
    /\ self = None
    /\ frame = NoFrame("new")
    /\ out = NoOut
    /\ calls = 0
    /\ stats = [solves |-> 0, raised |-> 0, refits |-> 0]
    /\ twin = None
    /\ op = Op("", None)
    /\ peer = None

Construct ==
    /\ frame.pc = "new"
    /\ Becomes(DoConstruct(args))
    /\ op' = Op("init", None)
    /\ UNCHANGED <<args, calls, stats, twin, peer>>

Call ==
    /\ frame.pc = "idle"
    /\ calls < MaxCalls
    /\ \E state \in States :
          /\ Becomes(DoCall(Cur, state))
          /\ TwinBecomes(DoCall(Twin, state))
          /\ op' = Op("forward", <<<<state>>>>)
    /\ calls' = calls + 1
    /\ stats' = IF frame'.pc = "idle" THEN [stats EXCEPT !.raised = @ + 1]
                ELSE stats
    /\ UNCHANGED <<args, peer>>

\* As Sample, for a loop that runs its body at least once.
SampleAtLeastOnce ==
    /\ frame.pc = "iter"
    /\ frame.i < Max(1, self.num_iter)
    /\ \E seed \in Seeds, broadcast \in BOOLEAN :
          /\ Becomes(DoSample(Cur, seed, broadcast))
          /\ TwinBecomes(DoSample(Twin, seed, broadcast))
    /\ stats' = IF frame'.pc = "idle" THEN [stats EXCEPT !.raised = @ + 1]
                ELSE stats
    /\ UNCHANGED <<args, calls, op, peer>>

Sample ==
    /\ frame.pc = "iter"
    /\ frame.i < self.num_iter
    /\ \E seed \in Seeds, broadcast \in BOOLEAN :
          /\ Becomes(DoSample(Cur, seed, broadcast))
          /\ TwinBecomes(DoSample(Twin, seed, broadcast))
    /\ stats' = IF frame'.pc = "idle" THEN [stats EXCEPT !.raised = @ + 1]
                ELSE stats
    /\ UNCHANGED <<args, calls, op, peer>>

Evaluate ==
    /\ frame.pc = "evaluate"
    /\ Becomes(DoEvaluate(Cur))
    /\ TwinBecomes(DoEvaluate(Twin))
    /\ UNCHANGED <<args, calls, stats, op, peer>>

Select ==
    /\ frame.pc = "select"
    /\ \E idx \in TopKChoices(Cur) :
          /\ Becomes(DoSelect(Cur, idx))
          /\ TwinBecomes(DoSelect(Twin,
                IF idx \in TopKChoices(Twin) THEN idx
                ELSE CHOOSE other \in TopKChoices(Twin) : TRUE))
    /\ stats' = IF frame'.pc = "idle" THEN [stats EXCEPT !.raised = @ + 1]
                ELSE stats
    /\ UNCHANGED <<args, calls, op, peer>>

Update ==
    /\ frame.pc = "refit"
    /\ Becomes(DoUpdate(Cur))
    /\ TwinBecomes(DoUpdate(Twin))
    /\ stats' = [stats EXCEPT !.refits = @ + 1]
    /\ UNCHANGED <<args, calls, op, peer>>

Return ==
    /\ frame.pc = "iter"
    /\ frame.i >= self.num_iter
    /\ Becomes(DoReturn(Cur))
    /\ TwinBecomes(IF Twin.frame.i >= Twin.self.num_iter THEN DoReturn(Twin)
                   ELSE Twin)
    /\ stats' = [stats EXCEPT !.solves = @ + 1]
    /\ UNCHANGED <<args, calls, op, peer>>

Reset ==
    /\ frame.pc = "idle"
    /\ calls < MaxCalls
    /\ \E w \in {None, WarmAction(self.horizon, self.dim_action)} :
          /\ Becomes(DoReset(Cur, w))
          /\ TwinBecomes(DoReset(Twin, w))
          /\ op' = Op("reset", w)
    /\ calls' = calls + 1
    /\ UNCHANGED <<args, stats, peer>>

Step ==
    \/ Call
    \/ Sample
    \/ Evaluate
    \/ Select
    \/ Update
    \/ Return
    \/ Reset

Next == Construct \/ Step

Spec == Init /\ [][Next]_vars

(* ------------------------------------------------------------------ *)
(* A RandomShooting solver beside a CEMShooting solver with num_iter=1 *)
(* built from the same arguments and given the same calls and draws.   *)
(* ------------------------------------------------------------------ *)

TwinArgs ==
    {Config("random", h, a, 1, ns, ne, w, da) :
        h \in {1, 2}, a \in {1, 2}, ns \in {NoneInt, 3}, ne \in {NoneInt, 2},
        w \in BOOLEAN, da \in {"zero", "mean", "last"}}

InitTwin ==
    /\ args \in TwinArgs
    /\ self = None
    /\ frame = NoFrame("new")
    /\ out = NoOut
    /\ calls = 0
    /\ stats = [solves |-> 0, raised |-> 0, refits |-> 0]
    /\ twin = None
    /\ op = Op("", None)
    /\ peer = None

ConstructBoth ==
    /\ frame.pc = "new"
    /\ Becomes(DoConstruct(args))
    /\ twin' = <<DoConstruct([args EXCEPT !.kind = "cem", !.num_iter = 1])>>
    /\ op' = Op("init", None)
    /\ UNCHANGED <<args, calls, stats, peer>>

NextTwin == ConstructBoth \/ Step

SpecTwin == InitTwin /\ [][NextTwin]_vars

(* ------------------------------------------------------------------ *)
(* Two callers of forward on one solver.  forward takes no lock, so a  *)
(* second call may begin, and take its steps, while the first stands   *)
(* between two statements of forward.                                  *)
(* ------------------------------------------------------------------ *)

Callers == {1, 2}

SharedArgs ==
    {Config(k, h, 1, 1, 2, 1, w, "zero") :
        k \in {"cem", "mppi"}, h \in {1, 2}, w \in BOOLEAN}

\* The second caller: its position in forward, how its last call ended,
\* and whether two calls ever stood inside forward at once.
Peer(f, o, overlapped) == [frame |-> f, out |-> o, overlapped |-> overlapped]

\* Caller c with the solver both callers share.
CallerProc(c) ==
    IF c = 1 THEN Proc(self, frame, out) ELSE Proc(self, peer.frame, peer.out)

\* The caller other than c stands inside forward.
OtherInside(c) ==
    IF c = 1 THEN peer.frame.pc # "idle" ELSE frame.pc # "idle"

\* Caller c takes the step p of its own on the shared solver.
CallerBecomes(c, p, overlapped) ==
    /\ self' = p.self
    /\ IF c = 1
       THEN /\ frame' = p.frame
            /\ out' = p.out
            /\ peer' = [peer EXCEPT !.overlapped = overlapped]
       ELSE /\ frame' = frame
            /\ out' = out
            /\ peer' = Peer(p.frame, p.out, overlapped)

InitShared ==
    /\ args \in SharedArgs
    /\ self = None
    /\ frame = NoFrame("new")
    /\ out = NoOut
    /\ calls = 0
    /\ stats = [solves |-> 0, raised |-> 0, refits |-> 0]
    /\ twin = None
    /\ op = Op("", None)
    /\ peer = Peer(NoFrame("new"), NoOut, FALSE)

SharedConstruct ==
    /\ frame.pc = "new"
    /\ Becomes(DoConstruct(args))
    /\ peer' = Peer(NoFrame("idle"), NoOut, FALSE)
    /\ op' = Op("init", None)
    /\ UNCHANGED <<args, calls, stats, twin>>

\* Each caller makes one forward call.
SharedCall(c) ==
    /\ CallerProc(c).frame.pc = "idle"
    /\ CallerProc(c).out = NoOut
    /\ \E state \in States :
          /\ CallerBecomes(c, DoCall(CallerProc(c), state),
                           peer.overlapped \/ OtherInside(c))
          /\ op' = Op("forward", <<<<state>>>>)
    /\ calls' = calls + 1
    /\ UNCHANGED <<args, stats, twin>>

SharedSample(c) ==
    /\ CallerProc(c).frame.pc = "iter"
    /\ CallerProc(c).frame.i < self.num_iter
    /\ \E seed \in Seeds, broadcast \in BOOLEAN :
          CallerBecomes(c, DoSample(CallerProc(c), seed, broadcast),
                        peer.overlapped)
    /\ UNCHANGED <<args, calls, stats, twin, op>>

SharedEvaluate(c) ==
    /\ CallerProc(c).frame.pc = "evaluate"
    /\ CallerBecomes(c, DoEvaluate(CallerProc(c)), peer.overlapped)
    /\ UNCHANGED <<args, calls, stats, twin, op>>

SharedSelect(c) ==
    /\ CallerProc(c).frame.pc = "select"
    /\ \E idx \in TopKChoices(CallerProc(c)) :
          CallerBecomes(c, DoSelect(CallerProc(c), idx), peer.overlapped)
    /\ UNCHANGED <<args, calls, stats, twin, op>>

SharedUpdate(c) ==
    /\ CallerProc(c).frame.pc = "refit"
    /\ CallerBecomes(c, DoUpdate(CallerProc(c)), peer.overlapped)
    /\ stats' = [stats EXCEPT !.refits = @ + 1]
    /\ UNCHANGED <<args, calls, twin, op>>

SharedReturn(c) ==
    /\ CallerProc(c).frame.pc = "iter"
    /\ CallerProc(c).frame.i >= self.num_iter
    /\ CallerBecomes(c, DoReturn(CallerProc(c)), peer.overlapped)
    /\ stats' = [stats EXCEPT !.solves = @ + 1]
    /\ UNCHANGED <<args, calls, twin, op>>

NextShared ==
    \/ SharedConstruct
    \/ \E c \in Callers :
          \/ SharedCall(c)
          \/ SharedSample(c)
          \/ SharedEvaluate(c)
          \/ SharedSelect(c)
          \/ SharedUpdate(c)
          \/ SharedReturn(c)

SpecShared == InitShared /\ [][NextShared]_vars

\* One loop iteration of forward run without interruption: the solvers
\* it may leave, over the draws and the tie-breaks of topk.
OneIteration(s, state) ==
    UNION {LET r == GetCandidateActionSequence(s, seed, broadcast)
           IN  IF r.err # "" THEN {}
               ELSE LET returns == EvaluateActionSequence(s, r.val, state)
                    IN  IF s.kind = "mppi"
                        THEN {UpdateSequenceGeneration(
                                 s, MPPIBestAction(s, r.val, returns))}
                        ELSE {UpdateSequenceGeneration(
                                 s, CEMBestAction(s, r.val, idx)) :
                                 idx \in TopK(returns, s.num_elites)} :
           seed \in Seeds, broadcast \in BOOLEAN}

RECURSIVE Iterations(_, _, _)
Iterations(s, state, i) ==
    IF i >= s.num_iter THEN {s}
    ELSE UNION {Iterations(s2, state, i + 1) : s2 \in OneIteration(s, state)}

\* forward(state) run without interruption on the solver s: the solvers
\* it may leave when it returns (it returns their mean).
Forward(s, state) ==
    LET r == InitializeActions(s)
    IN  IF r.err # "" THEN {} ELSE Iterations(r.val, state, 0)

\* The solvers n forward calls made one after the other may leave, from
\* the solvers in S.
RECURSIVE Serialized(_, _)
Serialized(S, n) ==
    IF n = 0 THEN {}
    ELSE LET after == UNION {Forward(s, state) : s \in S, state \in States}
         IN  after \cup Serialized(after, n - 1)

\* The means a forward call may return when the callers' calls on a solver
\* built from the arguments a are serialized, for each a of SharedArgs.
SerializedMeans ==
    [a \in SharedArgs |->
        {s.mean : s \in Serialized({NewSolver(a).val}, Cardinality(Callers))}]

(* ------------------------------------------------------------------ *)
(* Solvers whose scoring options are set: a discount below 1, a        *)
(* termination predicate, a terminal reward, a large MPPI temperature. *)
(* ------------------------------------------------------------------ *)

\* Rollout options of a CEM solver and of an MPPI solver.
RolloutArgs ==
    {[Config(k, h, 1, 1, 3, 1, FALSE, "zero") EXCEPT
         !.gamma = Rat(1, 2), !.termination = term, !.terminal_reward = tr] :
        k \in {"cem", "mppi"}, h \in {2, 3}, term \in {"none", "far"},
        tr \in {"none", "neg_abs"}}

\* An MPPI kappa past the exponent range of float32: in units of ln 2, one
\* unit of return scales to more than ExpUnderflow.
KappaArgs ==
    {[Config("mppi", h, 1, it, 4, NoneInt, FALSE, "zero") EXCEPT
         !.kappa = Schedule(R(k), FALSE)] :
        h \in {2, 3}, it \in {1, 2, 3}, k \in {1, ExpUnderflow + 1}}

ScoreArgs == RolloutArgs \cup KappaArgs

InitScore ==
    /\ args \in ScoreArgs
    /\ self = None
    /\ frame = NoFrame("new")
    /\ out = NoOut
    /\ calls = 0
    /\ stats = [solves |-> 0, raised |-> 0, refits |-> 0]
    /\ twin = None
    /\ op = Op("", None)
    /\ peer = None

SpecScore == InitScore /\ [][Next]_vars

(* ------------------------------------------------------------------ *)
(* Properties.                                                         *)
(* ------------------------------------------------------------------ *)

Constructed == frame.pc \notin {"new", "failed"}

\* forward has just run initialize_actions and stands before its first
\* iteration.
AfterInitialize == frame.pc = "iter" /\ frame.i = 0

\* This step is a forward call in which initialize_actions returned.
CallStep == frame.pc = "idle" /\ frame'.pc = "iter"

KnownDefaultActions == {"zero", "constant", "mean"}

\* m is steps x comps with every entry zero.
IsZeros(m, steps, comps) ==
    /\ Len(m) = steps
    /\ \A t \in 1..steps :
          Len(m[t]) = comps /\ \A c \in 1..comps : m[t][c] = R(0)

\* cov is scale^2 * I (comps x comps) at each of the steps time steps.
IsScaledIdentity(cov, scale, steps, comps) ==
    /\ Len(cov) = steps
    /\ \A t \in 1..steps :
          /\ Len(cov[t]) = comps
          /\ \A r \in 1..comps :
                /\ Len(cov[t][r]) = comps
                /\ \A c \in 1..comps :
                      cov[t][r][c] = IF r = c THEN RMul(scale, scale) ELSE R(0)

\* C1: whenever forward returns, for every solver kind and configuration,
\* the returned action sequence has exactly horizon steps and each step has
\* exactly dim_action components.
C1_ReturnsHorizonByActionDim ==
    (frame.pc = "idle" /\ out.result # None) =>
        /\ Len(out.result) = self.horizon
        /\ \A t \in 1..Len(out.result) : Len(out.result[t]) = self.dim_action

\* C2: with warm_start and default_action = 'zero', when a forward call
\* ended with mean m1 and the next forward call starts from it, the mean
\* right after initialize_actions is m1 shifted by one step, with a zero
\* vector as its last step.
C2_WarmStartShiftsMean ==
    [][(/\ CallStep
        /\ self.warm_start
        /\ self.default_action = "zero"
        /\ out.result # None
        /\ self.mean = out.result)
       => LET m1 == out.result
              m2 == self'.mean
              H == Len(m1)
          IN  /\ Len(m2) = H
              /\ \A t \in 1..(H - 1) : m2[t] = m1[t + 1]
              /\ Len(m2[H]) = Len(m1[H])
              /\ \A c \in 1..Len(m2[H]) : m2[H][c] = R(0)]_vars

\* A warm start under 'zero' moved a non-zero step of the last result to
\* the front.
C2_Witness ==
    /\ AfterInitialize
    /\ self.warm_start
    /\ self.default_action = "zero"
    /\ out.result # None
    /\ Len(out.result) >= 2
    /\ out.result[2][1] # R(0)
    /\ self.mean[1] = out.result[2]
    /\ self.mean[1] # out.result[1]

\* C3: on a warm start from a persisted mean m1 the appended last step is
\* a zero vector under 'zero', m1's last step under 'constant', and the
\* arithmetic mean of m1[1..H-1] under 'mean' (H >= 2); from
\* m1 = [[1],[2],[3]] the three means are [[2],[3],[0]], [[2],[3],[3]] and
\* [[2],[3],[2.5]].
C3_DefaultActionPolicies ==
    [][(CallStep /\ self.warm_start /\ self.mean # None)
       => LET m1 == self.mean
              m2 == self'.mean
              H == Len(m1)
              da == self.default_action
          IN  /\ Len(m2) = H
              /\ Len(m2[H]) = Len(m1[H])
              /\ da = "zero" => \A c \in 1..Len(m2[H]) : m2[H][c] = R(0)
              /\ da = "constant" => m2[H] = m1[H]
              /\ (da = "mean" /\ H >= 2) =>
                    \A c \in 1..Len(m2[H]) :
                       RMul(m2[H][c], R(H - 1))
                          = RSum([t \in 1..(H - 1) |-> m1[t + 1][c]])
              /\ m1 = <<<<R(1)>>, <<R(2)>>, <<R(3)>>>> =>
                    /\ da = "zero" => m2 = <<<<R(2)>>, <<R(3)>>, <<R(0)>>>>
                    /\ da = "constant" => m2 = <<<<R(2)>>, <<R(3)>>, <<R(3)>>>>
                    /\ da = "mean" => m2 = <<<<R(2)>>, <<R(3)>>, <<Rat(5, 2)>>>>
         ]_vars

\* The literal warm start of C3 under 'mean'.
C3_Witness ==
    /\ AfterInitialize
    /\ self.warm_start
    /\ self.default_action = "mean"
    /\ self.mean = <<<<R(2)>>, <<R(3)>>, <<Rat(5, 2)>>>>

C5_RandomIsCEMWithOneIteration ==
    (twin # None) =>
        /\ Twin.frame = frame
        /\ Twin.out = out
        /\ Constructed => [Twin.self EXCEPT !.kind = "random"] = self

\* Both solvers returned the same non-zero mean from a second, warm-started
\* call.
C5_Witness ==
    /\ twin # None
    /\ frame.pc = "idle"
    /\ stats.solves = 2
    /\ self.warm_start
    /\ out.result # None
    /\ out.result[1][1] # R(0)
    /\ Twin.out.result = out.result
    /\ Twin.self.kind = "cem"
    /\ Twin.self.num_iter = 1

C7_NumElitesClamped ==
    (Constructed /\ self.kind \in {"cem", "random"})
    => self.num_elites <= self.num_samples

\* C8: a CEM or Random Shooting solver constructed without num_elites
\* exists and has num_elites = max(1, num_samples // 10) for its effective
\* num_samples.
C8_DefaultNumElites ==
    (args.kind \in {"cem", "random"} /\ args.num_elites = NoneInt
        /\ frame.pc # "new")
    => /\ frame.pc # "failed"
       /\ self.num_elites = Max(1, self.num_samples \div 10)

\* C9: at the end of every initialize_actions call the covariance is
\* scale^2 * I at each of the horizon steps.
C9_CovarianceReset ==
    AfterInitialize =>
        IsScaledIdentity(self.covariance, self.scale, self.horizon,
                         self.dim_action)

\* A warm-started call of a CEM solver whose previous call refit the
\* covariance.
C9_Witness ==
    /\ AfterInitialize
    /\ self.kind = "cem"
    /\ self.warm_start
    /\ stats.refits >= 1
    /\ out.result # None
    /\ Len(out.result) >= 2
    /\ self.mean[1] = out.result[2]

\* C10: with warm_start disabled every forward call starts its iterations
\* from the zero mean and the covariance scale^2 * I.
C10_ColdStartFromDefault ==
    (AfterInitialize /\ ~self.warm_start) =>
        /\ IsZeros(self.mean, self.horizon, self.dim_action)
        /\ IsScaledIdentity(self.covariance, self.scale, self.horizon,
                            self.dim_action)

\* A cold call after a call that returned a non-zero mean.
C10_Witness ==
    /\ AfterInitialize
    /\ ~self.warm_start
    /\ out.result # None
    /\ out.result[1][1] # R(0)
    /\ stats.refits >= 1

\* This step is a reset call.
ResetStep == frame.pc = "idle" /\ op'.name = "reset" /\ calls' = calls + 1

\* This step is a forward call that follows a reset call.
CallAfterReset ==
    frame.pc = "idle" /\ op.name = "reset" /\ op'.name = "forward"

\* C11: reset(warm_action) sets the persisted mean to warm_action and
\* leaves every other field of the solver, and the caller's last result, as
\* they were.  In the forward call that follows, a solver with warm_start
\* and a known default_action starts its iterations from warm_action
\* shifted by one step with the default-action tail appended ('mean' for
\* H >= 2); after reset(None), or without warm_start, it starts from the
\* zero mean.
C11_ResetOverwritesMeanOnly ==
    /\ [][ResetStep =>
            /\ self'.mean = op'.arg
            /\ [self' EXCEPT !.mean = self.mean] = self
            /\ frame' = frame
            /\ out' = out]_vars
    /\ [][(CallAfterReset /\ self.default_action \in KnownDefaultActions)
           => LET w == op.arg
                  H == self.horizon
                  A == self.dim_action
                  m == self'.mean
                  da == self.default_action
              IN  /\ frame'.pc = "iter"
                  /\ Len(m) = H
                  /\ IF self.warm_start /\ w # None
                     THEN /\ \A t \in 1..(H - 1) : m[t] = w[t + 1]
                          /\ da = "zero" => m[H] = [c \in 1..A |-> R(0)]
                          /\ da = "constant" => m[H] = w[H]
                          /\ (da = "mean" /\ H >= 2) =>
                                \A c \in 1..A :
                                   RMul(m[H][c], R(H - 1))
                                      = RSum([t \in 1..(H - 1) |-> w[t + 1][c]])
                     ELSE IsZeros(m, H, A)]_vars

\* A warm-starting solver that was reset to a warm_action before its first
\* solve stands before its first iteration with the shifted warm_action,
\* its last step repeated under 'constant'.
C11_Witness ==
    /\ AfterInitialize
    /\ self.warm_start
    /\ self.default_action = "constant"
    /\ op.name = "forward"
    /\ self.horizon >= 2
    /\ calls >= 2
    /\ stats.solves = 0
    /\ self.mean[1] = WarmAction(self.horizon, self.dim_action)[2]
    /\ self.mean[self.horizon]
          = WarmAction(self.horizon, self.dim_action)[self.horizon]

\* C12: every candidate action sequence a solver generates, in every
\* iteration of every forward call, has exactly `horizon` steps and
\* `dim_action` components per step, the values given at construction.
C12_CandidatesHorizonByActionDim ==
    (Constructed /\ frame.action_sequence # None) =>
        /\ self.horizon = args.horizon
        /\ self.dim_action = args.dim_action
        /\ Len(frame.action_sequence) = self.horizon
        /\ \A t \in 1..Len(frame.action_sequence) :
              \A j \in 1..Len(frame.action_sequence[t]) :
                 Len(frame.action_sequence[t][j]) = self.dim_action

\* The actions of candidate j of the frame's candidates, step by step.
CandidateActions(j) ==
    [t \in 1..Len(frame.action_sequence) |-> frame.action_sequence[t][j]]

\* The state candidate j reaches after its first t actions, from the
\* dynamics x' = x + sum(a).
StateAfter(j, t) ==
    RAdd(frame.state,
         RSum([u \in 1..t |-> RSum(frame.action_sequence[u][j])]))

\* forward has evaluated the candidates of this iteration.
Evaluated == Constructed /\ frame.pc = "select"

\* C13: the return of every candidate is the sum over t = 0..H-1 of
\* gamma^t * reward_t of its trajectory, plus
\* gamma^H * terminal_reward(final_state) when a terminal reward is
\* configured, final_state being the next_state of the last transition,
\* and plus nothing otherwise.
C13_DiscountedReturnWithBootstrap ==
    Evaluated =>
        \A j \in 1..Len(frame.returns) :
           LET H == self.horizon
               trajectory ==
                   RolloutActions(self, frame.state, CandidateActions(j), FALSE)
               discounted ==
                   RSum([t \in 1..H |->
                           RMul(RPow(self.gamma, t - 1), trajectory[t].reward)])
               final_state == trajectory[H].next_state
           IN  /\ Len(trajectory) = H
               /\ final_state = StateAfter(j, H)
               /\ frame.returns[j] =
                     IF self.terminal_reward = "none" THEN discounted
                     ELSE RAdd(discounted,
                               RMul(RPow(self.gamma, H),
                                    TerminalReward(self.terminal_reward,
                                                   final_state)))

\* Candidates were evaluated under gamma = 1/2 with a terminal reward, and
\* one of them ends away from the origin, so that its bootstrap term is not
\* zero.
C13_Witness ==
    /\ Evaluated
    /\ self.gamma = Rat(1, 2)
    /\ self.terminal_reward # "none"
    /\ self.horizon = 3
    /\ \E j \in 1..Len(frame.returns) :
          /\ StateAfter(j, self.horizon) # R(0)
          /\ frame.returns[j] #
                DiscountSum([t \in 1..self.horizon |->
                    RolloutActions(self, frame.state, CandidateActions(j),
                                   FALSE)[t].reward], self.gamma)

\* The termination predicate signals at step t of candidate j.
SignalsAt(j, t) ==
    Termination(self.termination, StateAfter(j, t - 1),
                frame.action_sequence[t][j], StateAfter(j, t))

\* The first step of candidate j at which the predicate signals, or the
\* horizon when it never does.
FirstTerminated(j) ==
    IF \E t \in 1..self.horizon : SignalsAt(j, t)
    THEN CHOOSE t \in 1..self.horizon :
            SignalsAt(j, t) /\ \A u \in 1..(t - 1) : ~SignalsAt(j, u)
    ELSE self.horizon

\* The reward model's value at step t of candidate j.
RewardAt(j, t) ==
    Reward(self.reward_model, StateAfter(j, t - 1),
           frame.action_sequence[t][j], StateAfter(j, t))

\* C14: with a termination predicate, a candidate counts as terminated at
\* step t exactly when the predicate signalled at some step up to t (so it
\* stays terminated), and its return is the discounted sum of the rewards
\* of the steps up to and including the first terminated one (plus the
\* terminal bootstrap, when configured): no reward of a later step
\* contributes.
C14_NoRewardAfterTermination ==
    (Evaluated /\ self.termination # "none") =>
        \A j \in 1..Len(frame.returns) :
           LET H == self.horizon
               trajectory ==
                   RolloutActions(self, frame.state, CandidateActions(j), FALSE)
               bootstrap ==
                   IF self.terminal_reward = "none" THEN R(0)
                   ELSE RMul(RPow(self.gamma, H),
                             TerminalReward(self.terminal_reward,
                                            StateAfter(j, H)))
           IN  /\ \A t \in 1..H :
                     trajectory[t].done <=> \E u \in 1..t : SignalsAt(j, u)
               /\ \A t \in 1..(H - 1) :
                     trajectory[t].done => trajectory[t + 1].done
               /\ frame.returns[j] =
                     RAdd(RSum([t \in 1..FirstTerminated(j) |->
                                  RMul(RPow(self.gamma, t - 1), RewardAt(j, t))]),
                          bootstrap)

\* A candidate terminated at its first step, came back towards the origin
\* (the predicate no longer signals) and would have earned a non-zero
\* reward afterwards.
C14_Witness ==
    /\ Evaluated
    /\ self.termination = "far"
    /\ self.horizon = 3
    /\ \E j \in 1..Len(frame.returns) :
          /\ FirstTerminated(j) = 1
          /\ SignalsAt(j, 1)
          /\ ~SignalsAt(j, 2)
          /\ RewardAt(j, 2) # R(0)

\* The candidates of an MPPI iteration were evaluated; kappa is positive.
MPPISelecting ==
    /\ Evaluated
    /\ self.kind = "mppi"
    /\ RLt(R(0), KappaValue(self.kappa))

CEMRefitStep ==
    /\ frame.pc = "refit"
    /\ frame'.pc = "iter"
    /\ self.kind \in {"cem", "random"}

\* mean is, per step and action component, the sample mean of the actions
\* of the candidates idx selects, and lies between the least and the
\* greatest of them.
IsEliteMean(mean, idx) ==
    /\ Len(mean) = self.horizon
    /\ \A t \in 1..self.horizon :
          /\ Len(mean[t]) = self.dim_action
          /\ \A c \in 1..self.dim_action :
                LET elite(e) == frame.action_sequence[t][idx[e]][c]
                IN  /\ RMul(mean[t][c], R(Len(idx)))
                          = RSum([e \in 1..Len(idx) |-> elite(e)])
                    /\ \E e \in 1..Len(idx) : ~RLt(mean[t][c], elite(e))
                    /\ \E e \in 1..Len(idx) : ~RLt(elite(e), mean[t][c])

\* C16: after every CEM refit the new mean is, at every step and for every
\* action component, the sample mean of the num_elites selected candidates'
\* actions at that step, hence within their convex hull; it does not depend
\* on the previous mean.
C16_RefitMeanIsEliteMean ==
    [][CEMRefitStep =>
          \E idx \in TopK(frame.returns, self.num_elites) :
             IsEliteMean(self'.mean, idx)]_vars

\* The means the two callers' last forward calls returned.
ReturnedMeans == {m \in {out.result, peer.out.result} : m # None}

\* C17: as long as no forward call begins while another one stands inside
\* forward, every forward call returns a mean that calls made one after the
\* other can return.
C17_SerializedCallsAgree ==
    (Constructed /\ ~peer.overlapped) =>
        ReturnedMeans \subseteq SerializedMeans[args]

\* Two forward calls on one solver overlapped, and one of them returned a
\* mean that no sequence of calls made one after the other returns.
C17_Witness ==
    /\ Constructed
    /\ peer.overlapped
    /\ \E m \in ReturnedMeans : m \notin SerializedMeans[args]

\* C18: a forward call ends in one of two ways: it returns a sequence of
\* exactly `horizon` steps, or it raises and hands the caller nothing.
\* While a call is running the caller has received nothing of it, and
\* forward's loop is entered only by a new call from outside: a call that
\* raised is not started again by the solver.
C18_CompleteResultOrFailure ==
    /\ []((Constructed /\ frame.pc = "idle") =>
            \/ out = NoOut
            \/ /\ out.error = ""
               /\ out.result # None
               /\ Len(out.result) = self.horizon
            \/ /\ out.error # ""
               /\ out.result = None)
    /\ [][/\ stats'.raised = stats.raised + 1 =>
                /\ frame'.pc = "idle"
                /\ out'.error # ""
                /\ out'.result = None
          /\ (Constructed /\ frame'.pc # "idle") => out' = out
          /\ (frame.pc = "idle" /\ frame'.pc # "idle") =>
                /\ op'.name = "forward"
                /\ calls' = calls + 1
                /\ frame'.i = 0
          /\ (frame.pc \notin {"new", "failed", "idle"} /\ frame'.pc # "idle")
                => (frame'.i >= frame.i /\ calls' = calls)]_vars

\* A forward call raised in the middle of its first iteration, after
\* initialize_actions had assigned the mean, and returned nothing.
C18_Witness ==
    /\ Constructed
    /\ frame.pc = "idle"
    /\ stats.raised = 1
    /\ stats.solves = 0
    /\ out.error = "RuntimeError"
    /\ out.result = None
    /\ self.mean # None

\* This step is the named statement of forward.
SampleStep == frame.pc = "iter" /\ frame'.pc = "evaluate"

EvaluateStep == frame.pc = "evaluate" /\ frame'.pc = "select"

SelectStep == frame.pc = "select" /\ frame'.pc = "refit"

RefitStep == frame.pc = "refit" /\ frame'.pc = "iter"

ReturnStep == frame.pc = "iter" /\ frame'.pc = "idle" /\ out'.error = ""

\* C19: a forward call runs initialize_actions once, at its start, and
\* then its rounds one after the other, each in the order generate,
\* evaluate, select, refit: round i + 1 starts after the refit of round i
\* and draws its candidates from the mean that refit left; the call returns
\* after exactly num_iter rounds, and returns the mean the last refit left
\* (the initial mean when num_iter = 0).
C19_RoundsInOrder ==
    /\ [](Constructed => (frame.i >= 0 /\ frame.i <= self.num_iter))
    /\ [][/\ CallStep =>
                /\ InitializeActions(self) = Ok(self')
                /\ frame'.i = 0
          /\ (frame.pc \notin {"new", "idle"} /\ frame'.pc # "idle") =>
                \/ SampleStep /\ frame'.i = frame.i /\ self' = self
                \/ EvaluateStep /\ frame'.i = frame.i /\ self' = self
                \/ SelectStep /\ frame'.i = frame.i /\ self' = self
                \/ RefitStep /\ frame'.i = frame.i + 1
          /\ SampleStep =>
                /\ frame.i < self.num_iter
                /\ \E seed \in Seeds, broadcast \in BOOLEAN :
                      GetCandidateActionSequence(self, seed, broadcast)
                         = Ok(frame'.action_sequence)
          /\ EvaluateStep =>
                frame'.returns = EvaluateActionSequence(
                    self, frame.action_sequence, frame.state)
          /\ RefitStep =>
                self' = UpdateSequenceGeneration(self, frame.elite_actions)
          /\ ReturnStep =>
                /\ frame.i = self.num_iter
                /\ out'.result = self.mean
                /\ self' = self]_vars

\* A solver with num_iter = 2 stands after the sampling of its second
\* round, whose candidates were drawn from the mean its first refit left,
\* which is not the initial mean.
C19_Witness ==
    /\ Constructed
    /\ self.num_iter = 2
    /\ frame.pc = "evaluate"
    /\ frame.i = 1
    /\ ~IsZeros(self.mean, self.horizon, Len(self.mean[1]))
    /\ \E seed \in Seeds, broadcast \in BOOLEAN :
          GetCandidateActionSequence(self, seed, broadcast)
             = Ok(frame.action_sequence)

\* An MPPI solver has drawn the candidates of a round.
MPPISampled == Constructed /\ self.kind = "mppi" /\ frame.pc = "evaluate"

\* The filtered noise of step t, component c of candidate j as C20 defines
\* it from the raw draws of the seed.
FilteredFromRaw(seed, j, t, c) ==
    LET fc == self.filter_coefficients
        m == Min(t, Len(fc))
    IN  RDiv(RSum([k \in 1..m |->
                     RMul(fc[k], R(Noise(seed, j, t - k + 1, c)))]),
             RSum(SubSeq(fc, 1, m)))

\* C20: every MPPI candidate is the mean plus, at every step i, the sum
\* over k = 0..min(i, lag-1) of filter_coefficients[k] * raw_noise[i-k]
\* divided by the sum of the coefficients used, raw_noise being the noise
\* as it was drawn.
C20_FilterReadsRawNoise ==
    MPPISampled =>
        \E seed \in Seeds :
           \A t \in 1..Len(frame.action_sequence) :
              \A j \in 1..Len(frame.action_sequence[t]) :
                 \A c \in 1..Len(frame.action_sequence[t][j]) :
                    frame.action_sequence[t][j][c]
                       = RAdd(self.mean[t][c], FilteredFromRaw(seed, j, t, c))

\* A CEM or Random Shooting solver has selected the elites of a round.
CEMSelected ==
    /\ Constructed
    /\ self.kind \in {"cem", "random"}
    /\ frame.pc = "refit"

\* The elite tensor holds entries of the candidates in S and of no other
\* candidate, and of each candidate in S at every step.
ElitesAreCandidates(S) ==
    /\ \A t \in 1..Len(frame.elite_actions) :
          \A q \in 1..Len(frame.elite_actions[t]) :
             \E j \in S :
                frame.elite_actions[t][q][1] = frame.action_sequence[t][j][1]
    /\ \A j \in S :
          \E q \in 1..Len(frame.elite_actions[1]) :
             \A t \in 1..Len(frame.elite_actions) :
                frame.elite_actions[t][q][1] = frame.action_sequence[t][j][1]

\* C21: the elites of a CEM round come from exactly num_elites candidates,
\* and each of those has a return greater than or equal to the return of
\* every candidate that was not selected.
C21_SelectsTopNumElites ==
    CEMSelected =>
        \E S \in SUBSET (1..Len(frame.returns)) :
           /\ Cardinality(S) = self.num_elites
           /\ \A i \in S : \A j \in (1..Len(frame.returns)) \ S :
                 ~RLt(frame.returns[i], frame.returns[j])
           /\ ElitesAreCandidates(S)

\* Two elites were selected among three candidates, and the candidate left
\* out has a strictly smaller return than both.
C21_Witness ==
    /\ CEMSelected
    /\ self.num_elites = 2
    /\ Len(frame.returns) = 3
    /\ \E j \in 1..3 :
          /\ \A i \in (1..3) \ {j} : RLt(frame.returns[j], frame.returns[i])
          /\ \A i \in (1..3) \ {j} :
                \E q \in 1..Len(frame.elite_actions[1]) :
                   frame.elite_actions[1][q][1] = frame.action_sequence[1][i][1]
          /\ \A q \in 1..Len(frame.elite_actions[1]) :
                frame.elite_actions[1][q][1] # frame.action_sequence[1][j][1]

\* C22: for every dim_action the elite tensor of a CEM round is
\* horizon x num_elites x dim_action and holds, at every step, the complete
\* action of each of the num_elites selected candidates.
C22_ElitesHoldFullActions ==
    CEMSelected =>
        /\ Len(frame.elite_actions) = self.horizon
        /\ \A t \in 1..Len(frame.elite_actions) :
              /\ Len(frame.elite_actions[t]) = self.num_elites
              /\ \A q \in 1..Len(frame.elite_actions[t]) :
                    /\ Len(frame.elite_actions[t][q]) = self.dim_action
                    /\ \E j \in 1..Len(frame.returns) :
                          frame.elite_actions[t][q] = frame.action_sequence[t][j]

\* An MPPI solver stands inside forward, after initialize_actions.
MPPIInsideForward ==
    /\ Constructed
    /\ self.kind = "mppi"
    /\ frame.pc \in {"iter", "evaluate", "select", "refit"}

\* C23: from initialize_actions to the end of every MPPI forward call the
\* covariance is scale^2 * I at every step, and each refit leaves it as it
\* is and replaces the mean by sum_j weight_j * candidate_j / sum_j weight_j
\* over all num_samples candidates of the round.
C23_MPPIRefitsMeanOnly ==
    /\ [](MPPIInsideForward =>
             IsScaledIdentity(self.covariance, self.scale, self.horizon,
                              self.dim_action))
    /\ [][(RefitStep /\ self.kind = "mppi") =>
             LET weights == MPPIWeights(self, frame.returns)
             IN  /\ Len(weights) = self.num_samples
                 /\ self'.covariance = self.covariance
                 /\ Len(self'.mean) = self.horizon
                 /\ \A t \in 1..self.horizon :
                       /\ Len(self'.mean[t]) = self.dim_action
                       /\ \A c \in 1..self.dim_action :
                             RMul(self'.mean[t][c], RSum(weights))
                                = RSum([j \in 1..self.num_samples |->
                                     RMul(weights[j],
                                          frame.action_sequence[t][j][c])])]_vars

\* An MPPI solver stands before the refit of its second round with
\* candidates of different returns: the first refit moved the mean and the
\* covariance is still scale^2 * I.
C23_Witness ==
    /\ MPPIInsideForward
    /\ frame.pc = "refit"
    /\ frame.i = 1
    /\ ~IsZeros(self.mean, self.horizon, self.dim_action)
    /\ \E a, b \in 1..Len(frame.returns) :
          RLt(frame.returns[a], frame.returns[b])
    /\ IsScaledIdentity(self.covariance, self.scale, self.horizon,
                        self.dim_action)

\* All candidates of the round have the same return.
EqualReturns ==
    \A a, b \in 1..Len(frame.returns) : frame.returns[a] = frame.returns[b]

\* C24: when all candidates of an MPPI round have the same return, every
\* weight is exactly 1, whatever kappa is, and the refit mean is the
\* arithmetic average of the candidates at every step.
C24_EqualReturnsGiveAverage ==
    [][(RefitStep /\ self.kind = "mppi" /\ EqualReturns) =>
          /\ \A j \in 1..Len(frame.returns) :
                MPPIWeights(self, frame.returns)[j] = R(1)
          /\ \A t \in 1..self.horizon : \A c \in 1..self.dim_action :
                RMul(self'.mean[t][c], R(self.num_samples))
                   = RSum([j \in 1..self.num_samples |->
                             frame.action_sequence[t][j][c]])]_vars

\* An MPPI solver with the large kappa refitted from candidates that
\* differ in their actions and share one return, which is not zero.
C24_Witness ==
    /\ MPPIInsideForward
    /\ frame.pc = "refit"
    /\ self.kappa.start = R(ExpUnderflow + 1)
    /\ EqualReturns
    /\ frame.returns[1] # R(0)
    /\ \E a, b \in 1..self.num_samples :
          frame.action_sequence[1][a] # frame.action_sequence[1][b]
    /\ frame.elite_actions[1][1] # frame.action_sequence[1][1][1]

\* C25: evaluate_action_sequence changes nothing of the solver (mean,
\* covariance, kappa schedule, configuration), and evaluating the same
\* candidates from the same state again gives the same returns.
C25_EvaluateHasNoSideEffect ==
    /\ [](Evaluated =>
            frame.returns = EvaluateActionSequence(
                                self, frame.action_sequence, frame.state))
    /\ [][EvaluateStep =>
            /\ self' = self
            /\ frame'.action_sequence = frame.action_sequence
            /\ frame'.state = frame.state
            /\ out' = out]_vars

\* The candidates of a second round were evaluated, to returns that differ,
\* by a solver whose mean the first round moved.
C25_Witness ==
    /\ Constructed
    /\ frame.pc = "select"
    /\ frame.i = 1
    /\ ~IsZeros(self.mean, Len(self.mean), Len(self.mean[1]))
    /\ \E a, b \in 1..Len(frame.returns) : frame.returns[a] # frame.returns[b]

(* ------------------------------------------------------------------ *)
(* Batches of states: initialize_actions over a batch shape.           *)
(* ------------------------------------------------------------------ *)

\* A tensor with leading batch dimensions: its batch shape and, for every
\* batch index, the element (horizon x comps, or horizon x comps x comps).
Batched(shape, el) == <<shape, el>>

BatchShapeOf(t) == t[1]

ElementsOf(t) == t[2]

RECURSIVE SeqMax(_)
SeqMax(s) == IF s = <<>> THEN 0 ELSE Max(Head(s), SeqMax(Tail(s)))

RECURSIVE SeqSum(_)
SeqSum(s) == IF s = <<>> THEN 0 ELSE Head(s) + SeqSum(Tail(s))

\* The batch indices of a batch shape; the one index of shape () is <<>>.
Indices(shape) ==
    {idx \in [1..Len(shape) -> 1..SeqMax(shape)] :
        \A i \in 1..Len(shape) : idx[i] <= shape[i]}

\* An unbatched tensor, as torch.zeros(...) or torch.eye(...).repeat(...)
\* give it.
Unbatched(x) == Batched(<<>>, [idx \in Indices(<<>>) |-> x])

\* Tensor.repeat(*reps, 1, ..., 1) with one repeat per batch dimension and
\* 1 for the trailing dimensions: the tensor's batch shape is padded with
\* leading ones and multiplied; fewer repeats than dimensions raise.
TorchRepeat(t, reps) ==
    LET old == BatchShapeOf(t)
        pad == Len(reps) - Len(old)
        shape == [i \in 1..Len(reps) |->
                     reps[i] * (IF i <= pad THEN 1 ELSE old[i - pad])]
    IN  IF pad < 0 THEN Raise("RuntimeError")
        ELSE Ok(Batched(shape,
                 [idx \in Indices(shape) |->
                     ElementsOf(t)[[i \in 1..Len(old) |->
                                      ((idx[i + pad] - 1) % old[i]) + 1]]]))

\* initialize_actions(batch_shape), lines 112-131.  The slices of the warm
\* start act on the last two dimensions of every batch element.  The
\* exception of an unknown default_action comes before any assignment; the
\* one of repeat comes after the assignments of lines 122-126.
InitializeActionsBatched(s, batch_shape) ==
    LET elems == ElementsOf(s.mean)
        at(idx) == [s EXCEPT !.mean = elems[idx]]
        mean == IF WarmStarts(s)
                THEN Batched(BatchShapeOf(s.mean),
                         [idx \in DOMAIN elems |->
                             NextMean(elems[idx]) \o FinalAction(at(idx))])
                ELSE Unbatched(Zeros(s.horizon, s.dim_action))
        covariance == Unbatched(InitialCovariance(s))
        rmean == IF BatchShapeOf(mean) # batch_shape
                 THEN TorchRepeat(mean, batch_shape) ELSE Ok(mean)
        rcov == IF BatchShapeOf(covariance) # batch_shape
                THEN TorchRepeat(covariance, batch_shape) ELSE Ok(covariance)
    IN  IF WarmStarts(s) /\ s.default_action \notin KnownDefaultActions
        THEN [err |-> "NotImplementedError", val |-> s]
        ELSE IF rmean.err # ""
        THEN [err |-> rmean.err,
              val |-> [s EXCEPT !.mean = mean, !.covariance = covariance]]
        ELSE Ok([s EXCEPT !.mean = rmean.val, !.covariance = rcov.val])

\* MPCSolver.forward on a state of shape batch_shape + (dim_state,), up to
\* the loop.
DoCallBatched(p, batch_shape) ==
    LET r == InitializeActionsBatched(p.self, batch_shape)
    IN  IF r.err # ""
        THEN Proc(r.val, NoFrame("idle"), [result |-> None, error |-> r.err])
        ELSE Proc(r.val, NoFrame("iter"), p.out)

\* state.shape[:-1] of the states forward is called with.
BatchShapes == {<<>>, <<1>>, <<2>>, <<2, 2>>}

\* The tensors reset is called with: batch element idx holds WarmAction
\* shifted by the sum of idx.
BatchedWarmAction(shape, h, a) ==
    Batched(shape,
        [idx \in Indices(shape) |->
            [t \in 1..h |-> [c \in 1..a |-> R(t + c - 1 + SeqSum(idx))]]])

\* Solvers whose loop runs no iteration: forward is initialize_actions
\* followed by return self.mean.
BatchArgs ==
    {Config(k, 2, a, 0, 2, 1, w, da) :
        k \in {"cem", "mppi"}, a \in {1, 2}, w \in BOOLEAN,
        da \in DefaultActions}

InitBatch ==
    /\ args \in BatchArgs
    /\ self = None
    /\ frame = NoFrame("new")
    /\ out = NoOut
    /\ calls = 0
    /\ stats = [solves |-> 0, raised |-> 0, refits |-> 0]
    /\ twin = None
    /\ op = Op("", None)
    /\ peer = None

BatchCall ==
    /\ frame.pc = "idle"
    /\ calls < MaxCalls
    /\ \E batch_shape \in BatchShapes :
          /\ Becomes(DoCallBatched(Cur, batch_shape))
          /\ op' = Op("forward", batch_shape)
    /\ calls' = calls + 1
    /\ stats' = IF frame'.pc = "idle" THEN [stats EXCEPT !.raised = @ + 1]
                ELSE stats
    /\ UNCHANGED <<args, twin, peer>>

BatchReset ==
    /\ frame.pc = "idle"
    /\ calls < MaxCalls
    /\ \E w \in {None} \cup {BatchedWarmAction(b, self.horizon, self.dim_action) :
                                b \in BatchShapes} :
          /\ Becomes(DoReset(Cur, w))
          /\ op' = Op("reset", w)
    /\ calls' = calls + 1
    /\ UNCHANGED <<args, stats, twin, peer>>

NextBatch == Construct \/ BatchCall \/ Return \/ BatchReset

SpecBatch == InitBatch /\ [][NextBatch]_vars

\* initialize_actions has returned to forward for the batch shape op.arg.
BatchInitialized ==
    /\ Constructed
    /\ frame.pc = "iter"
    /\ op.name = "forward"

\* t has batch shape `shape`, and every batch element has `steps` rows.
HasBatchShape(t, shape, steps) ==
    /\ BatchShapeOf(t) = shape
    /\ DOMAIN ElementsOf(t) = Indices(shape)
    /\ \A idx \in DOMAIN ElementsOf(t) : Len(ElementsOf(t)[idx]) = steps

\* C26: after initialize_actions(batch_shape) the mean has the leading
\* dimensions batch_shape followed by (H, A) and the covariance batch_shape
\* followed by (H, A, A), whatever calls came before.
C26_BatchShapesAfterInitialize ==
    BatchInitialized =>
        /\ HasBatchShape(self.mean, op.arg, self.horizon)
        /\ HasBatchShape(self.covariance, op.arg, self.horizon)

\* The candidates of an MPPI iteration were evaluated to finite returns.
MPPIFiniteReturns ==
    /\ Evaluated
    /\ self.kind = "mppi"
    /\ \A j \in 1..Len(frame.returns) : ~IsNaN(frame.returns[j])

\* kappa * returns[j]
ScaledReturn(j) == RMul(KappaValue(self.kappa), frame.returns[j])

\* Candidate j has the largest scaled return of the iteration.
AttainsMax(j) ==
    \A k \in 1..Len(frame.returns) : ~RLt(ScaledReturn(j), ScaledReturn(k))

\* C27 as claimed: every MPPI weight lies in (0, 1], a candidate attaining
\* the maximum scaled return has weight exactly 1, and the sum of the
\* weights is at least 1.
C27_WeightsPositive ==
    MPPIFiniteReturns =>
        LET weights == MPPIWeights(self, frame.returns)
        IN  /\ \A j \in 1..Len(weights) :
                  RLt(R(0), weights[j]) /\ ~RLt(R(1), weights[j])
            /\ \E j \in 1..Len(weights) : AttainsMax(j) /\ weights[j] = R(1)
            /\ ~RLt(RSum(weights), R(1))

\* C27 as amended: every MPPI weight lies in [0, 1] and is zero exactly
\* when its scaled return is more than the exponent range of float32 below
\* the maximum; every candidate attaining the maximum has weight exactly 1,
\* and the sum of the weights is at least 1.
C27_WeightsInUnitInterval ==
    MPPIFiniteReturns =>
        LET weights == MPPIWeights(self, frame.returns)
        IN  /\ \A j \in 1..Len(weights) :
                  /\ ~RLt(weights[j], R(0))
                  /\ ~RLt(R(1), weights[j])
                  /\ weights[j] = R(0) <=>
                        \E k \in 1..Len(weights) :
                           RLt(RSub(ScaledReturn(j), ScaledReturn(k)),
                               R(-ExpUnderflow))
                  /\ AttainsMax(j) => weights[j] = R(1)
            /\ \E j \in 1..Len(weights) : AttainsMax(j)
            /\ ~RLt(RSum(weights), R(1))

\* An MPPI iteration whose finite returns give one candidate the weight 1
\* and another the weight 0, the weights summing to more than 1.
C27_Witness ==
    /\ MPPIFiniteReturns
    /\ LET weights == MPPIWeights(self, frame.returns)
       IN  \E a, b \in 1..Len(weights) :
              /\ AttainsMax(a)
              /\ weights[a] = R(1)
              /\ weights[b] = R(0)
              /\ RLt(R(1), RSum(weights))

\* The solver warm-starts and has a default_action the code does not know.
WarmUnknown ==
    /\ Constructed
    /\ self.warm_start
    /\ self.default_action \notin KnownDefaultActions

\* This step is the start of a forward call.
ForwardStep == frame.pc = "idle" /\ op'.name = "forward" /\ calls' = calls + 1

\* C28: with warm_start and an unknown default_action, a forward call
\* without a persisted mean (the first call, or the first after
\* reset(None)) succeeds; every other forward call raises
\* NotImplementedError inside initialize_actions and leaves the solver,
\* its mean and covariance included, as it was; the mean is absent only
\* after construction or reset(None), so the calls keep failing until then.
C28_UnknownDefaultFailsAfterFirstCall ==
    /\ [](WarmUnknown =>
            /\ out.error \in {"", "NotImplementedError"}
            /\ (self.mean = None) =>
                  (op.name = "init" \/ (op.name = "reset" /\ op.arg = None)))
    /\ [][(WarmUnknown /\ ForwardStep) =>
            IF self.mean = None
            THEN /\ frame'.pc = "iter"
                 /\ out'.error = ""
            ELSE /\ frame'.pc = "idle"
                 /\ out'.error = "NotImplementedError"
                 /\ out'.result = None
                 /\ self' = self]_vars

\* A warm-starting solver with an unknown default_action completed its
\* first call, which moved the mean, and raised in the second.
C28_Witness ==
    /\ WarmUnknown
    /\ stats.solves = 1
    /\ stats.raised = 1
    /\ op.name = "forward"
    /\ out.error = "NotImplementedError"
    /\ ~IsZeros(self.mean, self.horizon, self.dim_action)

\* The solver was constructed with num_iter = 0.
NoIterations == Constructed /\ self.num_iter = 0

\* C29: with num_iter = 0 forward generates no candidates, evaluates
\* nothing, refits nothing and does not advance kappa, and returns the
\* mean initialize_actions left: horizon zero vectors on a cold start, the
\* previous mean shifted by one step with the default-action tail on a
\* warm start.
C29_NoIterationReturnsInitialMean ==
    /\ [](NoIterations =>
            /\ frame.pc \in {"idle", "iter"}
            /\ frame.action_sequence = None
            /\ frame.returns = None
            /\ frame.elite_actions = None
            /\ stats.refits = 0
            /\ self.kappa.step = 0)
    /\ [][(NoIterations /\ CallStep) =>
            LET m1 == self.mean
                m2 == self'.mean
                H == self.horizon
                da == self.default_action
            IN  IF self.warm_start /\ m1 # None
                THEN /\ Len(m2) = H
                     /\ \A t \in 1..(H - 1) : m2[t] = m1[t + 1]
                     /\ da = "zero" => m2[H] = [c \in 1..self.dim_action |-> R(0)]
                     /\ da = "constant" => m2[H] = m1[H]
                     /\ (da = "mean" /\ H >= 2) =>
                           \A c \in 1..self.dim_action :
                              RMul(m2[H][c], R(H - 1))
                                 = RSum([t \in 1..(H - 1) |-> m1[t + 1][c]])
                ELSE IsZeros(m2, H, self.dim_action)]_vars
    /\ [][(NoIterations /\ frame.pc = "iter") =>
            /\ ReturnStep
            /\ out'.result = self.mean
            /\ self' = self]_vars

\* A warm-starting solver with num_iter = 0 completed a call and returned
\* a mean that is not zero.
C29_Witness ==
    /\ NoIterations
    /\ self.warm_start
    /\ frame.pc = "idle"
    /\ op.name = "forward"
    /\ stats.solves = 1
    /\ out.error = ""
    /\ out.result = self.mean
    /\ ~IsZeros(out.result, self.horizon, self.dim_action)

(* ------------------------------------------------------------------ *)
(* rollout_agent: an agent interacting with an environment.            *)
(* ------------------------------------------------------------------ *)

\* Longest episode of the environment: step sets done at the latest in
\* the MaxEpisodeLen-th step of an episode.
MaxEpisodeLen == 2

\* The values of num_episodes.
EpisodeCounts == {0, 1, 2}

\* The states environment.reset may return, and the actions agent.act may
\* return.
EnvStates == {0, 1}

AgentActions == {1, 2}

\* environment.step: the next state and the reward of a transition.
EnvNextState(state, action) == (state + action) % 3

EnvReward(state, action) == 0 - EnvNextState(state, action)

\* A call rollout_agent made on the environment or the agent, with its
\* argument and what it returned.
CallOf(name, arg, ret) == [name |-> name, arg |-> arg, ret |-> ret]

\* Observation(state, action, reward, next_state, done)
Observation(f) ==
    [state |-> f.state, action |-> f.action, reward |-> f.reward,
     next_state |-> f.next_state, done |-> f.done]

\* The locals of rollout_agent before its first statement.  episode counts
\* the loop iterations begun, steps the environment steps of the episode.
RolloutFrame ==
    [pc |-> "for", episode |-> 0, steps |-> 0, state |-> 0, action |-> 0,
     reward |-> 0, next_state |-> 0, done |-> FALSE]

InitRollout ==
    /\ args \in [num_episodes : EpisodeCounts]
    /\ self = None
    /\ frame = RolloutFrame
    /\ out = <<>>
    /\ calls = 0
    /\ stats = [solves |-> 0, raised |-> 0, refits |-> 0]
    /\ twin = None
    /\ op = Op("", None)
    /\ peer = None

Called(name, arg, ret) ==
    /\ out' = Append(out, CallOf(name, arg, ret))
    /\ UNCHANGED <<args, self, calls, stats, twin, op, peer>>

\* for _ in range(num_episodes): state = environment.reset()
EnvReset ==
    /\ frame.pc = "for"
    /\ frame.episode < args.num_episodes
    /\ \E state \in EnvStates :
          /\ frame' = [frame EXCEPT !.pc = "start_episode", !.state = state,
                          !.episode = @ + 1, !.steps = 0]
          /\ Called("reset", None, state)

\* agent.start_episode(); done = False
StartEpisode ==
    /\ frame.pc = "start_episode"
    /\ frame' = [frame EXCEPT !.pc = "while", !.done = FALSE]
    /\ Called("start_episode", None, None)

\* while not done: action = agent.act(state)
Act ==
    /\ frame.pc = "while"
    /\ ~frame.done
    /\ \E action \in AgentActions :
          /\ frame' = [frame EXCEPT !.pc = "step", !.action = action]
          /\ Called("act", frame.state, action)

\* next_state, reward, done, _ = environment.step(action)
EnvStep ==
    /\ frame.pc = "step"
    /\ \E done \in BOOLEAN :
          /\ frame.steps + 1 >= MaxEpisodeLen => done
          /\ frame' = [frame EXCEPT !.pc = "observe",
                          !.next_state = EnvNextState(frame.state, frame.action),
                          !.reward = EnvReward(frame.state, frame.action),
                          !.done = done, !.steps = @ + 1]
          /\ Called("step", frame.action,
                    <<EnvNextState(frame.state, frame.action),
                      EnvReward(frame.state, frame.action), done>>)

\* As Observe, without state = next_state.
ObserveKeepingState ==
    /\ frame.pc = "observe"
    /\ frame' = [frame EXCEPT !.pc = "while"]
    /\ Called("observe", Observation(frame), None)

\* agent.observe(observation); state = next_state
Observe ==
    /\ frame.pc = "observe"
    /\ frame' = [frame EXCEPT !.pc = "while", !.state = frame.next_state]
    /\ Called("observe", Observation(frame), None)

\* The while loop ends: agent.end_episode()
EndEpisode ==
    /\ frame.pc = "while"
    /\ frame.done
    /\ frame' = [frame EXCEPT !.pc = "for"]
    /\ Called("end_episode", None, None)

\* The for loop ends: agent.end_interaction(), and rollout_agent returns.
EndInteraction ==
    /\ frame.pc = "for"
    /\ frame.episode >= args.num_episodes
    /\ frame' = [frame EXCEPT !.pc = "returned"]
    /\ Called("end_interaction", None, None)

NextRollout ==
    \/ EnvReset
    \/ StartEpisode
    \/ Act
    \/ EnvStep
    \/ Observe
    \/ EndEpisode
    \/ EndInteraction

SpecRollout == InitRollout /\ [][NextRollout]_vars

\* The number of calls of `name` made so far.
CountOf(name) == Cardinality({i \in 1..Len(out) : out[i].name = name})

\* Call i is the call `name`.
IsCall(i, name) == i \in 1..Len(out) /\ out[i].name = name

\* C30: in each of the num_episodes episodes environment.reset and then
\* agent.start_episode happen once before any act; each act is followed by
\* one environment.step of its action and one agent.observe carrying that
\* state, action, reward, next_state and done, and the next act receives
\* that next_state; agent.end_episode is called once, right after the
\* first observation with done; agent.end_interaction is called once,
\* after the last end_episode.
C30_AgentLifecycle ==
    /\ \A i \in 1..Len(out) :
          /\ IsCall(i, "reset") => (i = 1 \/ IsCall(i - 1, "end_episode"))
          /\ IsCall(i, "start_episode") => IsCall(i - 1, "reset")
          /\ IsCall(i, "act") =>
                \/ IsCall(i - 1, "start_episode") /\ out[i].arg = out[i - 2].ret
                \/ /\ IsCall(i - 1, "observe")
                   /\ ~out[i - 1].arg.done
                   /\ out[i].arg = out[i - 1].arg.next_state
          /\ IsCall(i, "step") => IsCall(i - 1, "act") /\ out[i].arg = out[i - 1].ret
          /\ IsCall(i, "observe") =>
                /\ IsCall(i - 1, "step")
                /\ out[i].arg = [state |-> out[i - 2].arg,
                                 action |-> out[i - 2].ret,
                                 reward |-> out[i - 1].ret[2],
                                 next_state |-> out[i - 1].ret[1],
                                 done |-> out[i - 1].ret[3]]
          /\ IsCall(i, "end_episode") =>
                IsCall(i - 1, "observe") /\ out[i - 1].arg.done
          /\ IsCall(i, "end_interaction") =>
                /\ i = Len(out)
                /\ i = 1 \/ IsCall(i - 1, "end_episode")
                /\ CountOf("end_episode") = args.num_episodes
    /\ frame.pc = "returned" =>
          /\ CountOf("end_interaction") = 1
          /\ CountOf("reset") = args.num_episodes
          /\ CountOf("start_episode") = args.num_episodes
          /\ CountOf("end_episode") = args.num_episodes
          /\ CountOf("act") = CountOf("step")
          /\ CountOf("act") = CountOf("observe")

\* rollout_agent returned after two episodes, the first of two steps whose
\* second act received a state other than the one reset returned.
C30_Witness ==
    /\ frame.pc = "returned"
    /\ args.num_episodes = 2
    /\ Len(out) >= 9
    /\ IsCall(3, "act")
    /\ IsCall(6, "act")
    /\ out[6].arg # out[3].arg
    /\ IsCall(9, "end_episode")
    /\ IsCall(Len(out), "end_interaction")

====
